---- MODULE Spec2Model ----
(***************************************************************************)
(* State-machine model of the native RAR shim (src/src/rar_native.c):      *)
(* rar_get_error_message, map_archive_error, create_directory_recursive,   *)
(* get_parent_directory, copy_data, rar_extract and rar_list.              *)
(*                                                                         *)
(* libarchive and the operating system are the environment: every call     *)
(* into them is a step whose outcome (status, errno, error string, what    *)
(* ends up on disk) is chosen nondeterministically from small sets.        *)
(* Paths are sequences of components below the filesystem root; C strings  *)
(* that the code searches with strstr are sequences of characters.         *)
(***************************************************************************)
EXTENDS Integers, Sequences, FiniteSets, TLC

\* ------------------------------------------------------------------ bounds

\* Largest number of entry headers an archive of the model holds.
MaxEntries == 2
\* rar_get_error_message is probed with every int in -MaxProbe .. MaxProbe + 9.
MaxProbe == 60

\* --------------------------------------------------- rar_native.h constants

RAR_SUCCESS == 0
RAR_FILE_NOT_FOUND == 1
RAR_OPEN_ERROR == 2
RAR_CREATE_ERROR == 3
RAR_MEMORY_ERROR == 4
RAR_BAD_ARCHIVE == 5
RAR_UNKNOWN_FORMAT == 6
RAR_BAD_PASSWORD == 7
RAR_BAD_DATA == 8
RAR_UNKNOWN_ERROR == 9

\* ------------------------------------------------------ environment values

\* A C NULL pointer (a string, a callback, an allocation that failed).
NULL == "NULL"

\* libarchive statuses; the code only compares them with ARCHIVE_OK and
\* ARCHIVE_EOF, so ARCHIVE_RETRY and ARCHIVE_FAILED behave as ARCHIVE_WARN does.
ARCHIVE_OK == "ARCHIVE_OK"
ARCHIVE_EOF == "ARCHIVE_EOF"
ARCHIVE_WARN == "ARCHIVE_WARN"
ARCHIVE_FATAL == "ARCHIVE_FATAL"
\* The statuses of a call that did not succeed.
ArchiveFailures == {ARCHIVE_WARN, ARCHIVE_FATAL}

\* errno values the code names, and one it does not.
ENOENT == "ENOENT"
ENOMEM == "ENOMEM"
EEXIST == "EEXIST"
EACCES == "EACCES"
EOTHER == "EOTHER"

\* ------------------------------------------------------------- C strings

\* strstr(haystack, needle) != NULL, on sequences of characters.
StrStr(haystack, needle) ==
  \E i \in 1..(Len(haystack) - Len(needle) + 1) :
     SubSeq(haystack, i, i + Len(needle) - 1) = needle

\* The needles map_archive_error searches for.
KW_password == <<"p","a","s","s","w","o","r","d">>
KW_Password == <<"P","a","s","s","w","o","r","d">>
KW_encrypted == <<"e","n","c","r","y","p","t","e","d">>
KW_Encrypted == <<"E","n","c","r","y","p","t","e","d">>
KW_corrupt == <<"c","o","r","r","u","p","t">>
KW_Corrupt == <<"C","o","r","r","u","p","t">>
KW_invalid == <<"i","n","v","a","l","i","d">>
KW_Invalid == <<"I","n","v","a","l","i","d">>
KW_CRC == <<"C","R","C">>
KW_checksum == <<"c","h","e","c","k","s","u","m">>
KW_format == <<"f","o","r","m","a","t">>
KW_Format == <<"F","o","r","m","a","t">>

\* Representative archive_error_string texts, keyed by a short name; the state
\* holds the name, ErrText gives the characters strstr sees.
ErrText(id) ==
  CASE id = "BadPassword" ->    \* "Incorrect password"
        <<"I","n","c","o","r","r","e","c","t"," ","p","a","s","s","w","o","r","d">>
    [] id = "RarEncryption" ->  \* "RAR encryption support unavailable."
        <<"R","A","R"," ","e","n","c","r","y","p","t","i","o","n"," ","s","u","p","p","o","r","t"," ","u","n","a","v","a","i","l","a","b","l","e",".">>
    [] id = "EncInvalid" ->     \* "Encrypted data is invalid"
        <<"E","n","c","r","y","p","t","e","d"," ","d","a","t","a"," ","i","s"," ","i","n","v","a","l","i","d">>
    [] id = "FileCRC" ->        \* "File CRC error"
        <<"F","i","l","e"," ","C","R","C"," ","e","r","r","o","r">>
    [] id = "BadHeader" ->      \* "Invalid header size"
        <<"I","n","v","a","l","i","d"," ","h","e","a","d","e","r"," ","s","i","z","e">>
    [] id = "NoFormat" ->       \* "Unrecognized archive format"
        <<"U","n","r","e","c","o","g","n","i","z","e","d"," ","a","r","c","h","i","v","e"," ","f","o","r","m","a","t">>
    [] id = "OpenFailed" ->     \* "Failed to open file"
        <<"F","a","i","l","e","d"," ","t","o"," ","o","p","e","n"," ","f","i","l","e">>

\* What archive_error_string can return: one of the texts, or NULL.
ErrStrings ==
  {"BadPassword", "RarEncryption", "EncInvalid", "FileCRC", "BadHeader",
   "NoFormat", "OpenFailed", NULL}

\* What a failed libarchive call can leave in its object: archive_errno and
\* archive_error_string.
Errs ==
  { [no |-> EOTHER, str |-> t] : t \in ErrStrings \ {"OpenFailed"} }
    \cup { [no |-> ENOENT, str |-> "OpenFailed"], [no |-> ENOMEM, str |-> NULL] }

\* ------------------------------------------------ rar_get_error_message

\* The static table; C index i is element i + 1.
error_messages ==
  << "Success",
     "RAR file not found",
     "Failed to open RAR archive",
     "Failed to create output file",
     "Memory allocation error",
     "Corrupt or invalid RAR archive",
     "Unknown archive format (not a valid RAR file)",
     "Incorrect password or password required",
     "Data error in archive (CRC check failed)",
     "Unknown error" >>

\* What a read past either end of the table stands for (undefined behaviour).
OutOfBounds == "<out-of-bounds read>"

\* error_messages[i] as C evaluates it.
TableRead(i) ==
  IF i >= 0 /\ i < Len(error_messages) THEN error_messages[i + 1] ELSE OutOfBounds

\* The function without its range check.
rar_get_error_message_unchecked(error_code) == TableRead(error_code)

rar_get_error_message(error_code) ==
  IF error_code < 0 \/ error_code > RAR_UNKNOWN_ERROR
    THEN TableRead(RAR_UNKNOWN_ERROR)
    ELSE TableRead(error_code)

\* ----------------------------------------------------- map_archive_error

\* The first strstr group of map_archive_error.
MentionsPassword(s) ==
  \/ StrStr(s, KW_password) \/ StrStr(s, KW_Password)
  \/ StrStr(s, KW_encrypted) \/ StrStr(s, KW_Encrypted)

MentionsCorrupt(s) ==
  \/ StrStr(s, KW_corrupt) \/ StrStr(s, KW_Corrupt)
  \/ StrStr(s, KW_invalid) \/ StrStr(s, KW_Invalid)

MentionsCRC(s) == StrStr(s, KW_CRC) \/ StrStr(s, KW_checksum)

MentionsFormat(s) == StrStr(s, KW_format) \/ StrStr(s, KW_Format)

\* map_archive_error with the corrupt/invalid test ahead of the password test.
MapCode_corruptFirst(err, err_str) ==
  IF err = ENOENT THEN RAR_FILE_NOT_FOUND
  ELSE IF err = ENOMEM THEN RAR_MEMORY_ERROR
  ELSE IF err_str = NULL THEN RAR_UNKNOWN_ERROR
  ELSE IF MentionsCorrupt(ErrText(err_str)) THEN RAR_BAD_ARCHIVE
  ELSE IF MentionsPassword(ErrText(err_str)) THEN RAR_BAD_PASSWORD
  ELSE IF MentionsCRC(ErrText(err_str)) THEN RAR_BAD_DATA
  ELSE IF MentionsFormat(ErrText(err_str)) THEN RAR_UNKNOWN_FORMAT
  ELSE RAR_UNKNOWN_ERROR

\* map_archive_error falling through to 0 when libarchive gives no string.
MapCode_zeroDefault(err, err_str) ==
  IF err = ENOENT THEN RAR_FILE_NOT_FOUND
  ELSE IF err = ENOMEM THEN RAR_MEMORY_ERROR
  ELSE IF err_str = NULL THEN RAR_SUCCESS
  ELSE IF MentionsPassword(ErrText(err_str)) THEN RAR_BAD_PASSWORD
  ELSE IF MentionsCorrupt(ErrText(err_str)) THEN RAR_BAD_ARCHIVE
  ELSE IF MentionsCRC(ErrText(err_str)) THEN RAR_BAD_DATA
  ELSE IF MentionsFormat(ErrText(err_str)) THEN RAR_UNKNOWN_FORMAT
  ELSE RAR_UNKNOWN_ERROR

\* The code map_archive_error returns for archive_errno err and
\* archive_error_string err_str.
MapCode(err, err_str) ==
  IF err = ENOENT THEN RAR_FILE_NOT_FOUND
  ELSE IF err = ENOMEM THEN RAR_MEMORY_ERROR
  ELSE IF err_str = NULL THEN RAR_UNKNOWN_ERROR
  ELSE IF MentionsPassword(ErrText(err_str)) THEN RAR_BAD_PASSWORD
  ELSE IF MentionsCorrupt(ErrText(err_str)) THEN RAR_BAD_ARCHIVE
  ELSE IF MentionsCRC(ErrText(err_str)) THEN RAR_BAD_DATA
  ELSE IF MentionsFormat(ErrText(err_str)) THEN RAR_UNKNOWN_FORMAT
  ELSE RAR_UNKNOWN_ERROR

\* Whether map_archive_error invokes error_cb: if (error_cb && err_str).
MapCalls(cb, err_str) == cb /\ err_str # NULL

\* ------------------------------------------------------------ filesystem

\* A path is a sequence of components below the root; ".." is the parent
\* directory and "" an empty component (a doubled separator).
Root == << >>

\* What resolving a path yields when a directory on the way does not exist.
NoPath == << "<ENOENT>" >>

\* The paths rar_extract is given as dest_path.
DestPaths == { <<"srv", "out">> }

\* The pathnames an entry header can carry (archive_entry_pathname), NULL apart:
\* "a", "a/b", "../x", "a/../../../x", "/x".
EntryPaths ==
  { <<"a">>, <<"a", "b">>, <<"..", "x">>, <<"a", "..", "..", "..", "x">>,
    <<"", "x">> }

Front(p) == SubSeq(p, 1, Len(p) - 1)

IsPrefix(p, q) == Len(p) <= Len(q) /\ SubSeq(q, 1, Len(p)) = p

\* The proper and improper prefixes of a path, Root included.
Prefixes(p) == { SubSeq(p, 1, k) : k \in 0..Len(p) }

\* The operating system's resolution of path p from directory cur, the
\* directories ds existing: every component but the last must name one.
RECURSIVE Walk(_, _, _)
Walk(p, cur, ds) ==
  IF p = << >> THEN cur
  ELSE LET c == Head(p)
           nxt == IF c = "" THEN cur
                  ELSE IF c = ".." THEN (IF cur = Root THEN Root ELSE Front(cur))
                  ELSE Append(cur, c)
       IN IF Len(p) > 1 /\ nxt \notin ds THEN NoPath
          ELSE Walk(Tail(p), nxt, ds)

\* mkdir(path, 0755) on a filesystem with directories ds and files fl.
Mkdir(path, ds, fl, writable) ==
  LET q == Walk(path, Root, ds)
  IN IF q = NoPath THEN [rc |-> -1, errno |-> ENOENT, dirs |-> ds]
     ELSE IF q \in ds \cup fl THEN [rc |-> -1, errno |-> EEXIST, dirs |-> ds]
     ELSE IF ~writable THEN [rc |-> -1, errno |-> EACCES, dirs |-> ds]
     ELSE [rc |-> 0, errno |-> "0", dirs |-> ds \cup {q}]

\* The while loop of create_directory_recursive: mkdir on the prefixes of
\* path that end at a separator, shortest first, results ignored.
RECURSIVE MkdirParents(_, _, _, _, _)
MkdirParents(path, k, ds, fl, writable) ==
  IF k >= Len(path) THEN ds
  ELSE MkdirParents(path, k + 1,
                    Mkdir(SubSeq(path, 1, k), ds, fl, writable).dirs, fl, writable)

\* create_directory_recursive(path): its return value and the directories after.
create_directory_recursive(path, ds, fl, writable) ==
  LET ds1 == MkdirParents(path, 1, ds, fl, writable)
      last == Mkdir(path, ds1, fl, writable)
  IN [rc |-> IF last.rc = 0 \/ last.errno = EEXIST THEN 0 ELSE -1,
      dirs |-> last.dirs]

\* get_parent_directory(path): the path cut at its last separator, unless
\* that separator is its first character.
get_parent_directory(path) == IF Len(path) > 1 THEN Front(path) ELSE path

\* snprintf(full_path, ..., "%s%c%s", dest_path, PATH_SEP, entry_path).
FullPath(dest, entry_path) == dest \o entry_path

\* The object archive_write_header creates for an entry named path, or NoPath
\* when a directory on the way is missing.
WriteTarget(path, ds) == Walk(path, Root, ds)

\* ----------------------------------------------------------------- state

VARIABLES
  pc,    \* where the running call stands
  args,  \* the call: op, password, list_cb, error_cb, dest_path
  env,   \* what the call finds: destExisted, fileExists, writable, nEntries
  fs,    \* the filesystem: dirs, files (resolved paths)
  mem,   \* resources: f, a, ext, full_path, and bad (misuse), leaked
  lib,   \* libarchive's objects: passSet, aFatal, aErr, extErr
  loc,   \* locals: r, result, cur (headers read), entry (the current header)
  out,   \* what the caller sees: listed, extracted, errCalls, cbMsg
  hist,  \* what happened: openSt, lastHdr, named, failedAt, failStep,
         \* skipFailAt, pwCase, mapErr
  msg    \* the last rar_get_error_message call: called, code, text

vars == << pc, args, env, fs, mem, lib, loc, out, hist, msg >>

\* The password argument: NULL, the empty string, a non-empty string.
Passwords == { NULL, "", "secret" }

\* archive_errno / archive_error_string of an object no call has failed on.
NoErr == [no |-> "0", str |-> NULL]

\* No header read yet.
NoEntry == [hasPath |-> FALSE, path |-> Root, size |-> 0, enc |-> FALSE]

\* The headers archive_read_next_header can deliver: a pathname (or none that
\* archive_entry_pathname can give), a size, whether the data is encrypted.
Entries(op) ==
  { e \in [hasPath : BOOLEAN, path : EntryPaths \cup {Root}, size : {0, 1},
           enc : BOOLEAN] :
      /\ e.hasPath = (e.path # Root)
      /\ e.enc => e.size > 0
      /\ op = "list" => e.path \in {Root, <<"a">>} /\ ~e.enc }

\* The directories before the call: the root, and dest_path with its parents
\* when it exists already.
InitDirs(dest, existed) == IF existed THEN Prefixes(dest) ELSE {Root}

\* What this call has created on disk.
Created == (fs.dirs \cup fs.files) \ InitDirs(args.dest_path, env.destExisted)

Init ==
  /\ pc = "start"
  /\ \E op \in {"extract", "list"}, pw \in Passwords, lcb \in BOOLEAN,
        ecb \in BOOLEAN, dest \in DestPaths :
        /\ op = "extract" => ~lcb
        /\ args = [op |-> op, password |-> pw, list_cb |-> lcb,
                   error_cb |-> ecb, dest_path |-> dest]
  /\ \E existed \in BOOLEAN :
        /\ args.op = "list" => ~existed
        /\ env = [destExisted |-> existed, fileExists |-> FALSE,
                  writable |-> FALSE, nEntries |-> 0]
        /\ fs = [dirs |-> InitDirs(args.dest_path, existed), files |-> {}]
  /\ mem = [f |-> "null", a |-> "null", ext |-> "null", full_path |-> "null",
            bad |-> FALSE, leaked |-> FALSE]
  /\ lib = [passSet |-> FALSE, aFatal |-> FALSE, aErr |-> NoErr, extErr |-> NoErr]
  /\ loc = [r |-> ARCHIVE_OK, result |-> RAR_SUCCESS, cur |-> 0, entry |-> NoEntry]
  /\ out = [listed |-> << >>, extracted |-> {}, errCalls |-> 0, cbMsg |-> NULL]
  /\ hist = [openSt |-> "none", lastHdr |-> "none", named |-> {}, failedAt |-> 0,
             failStep |-> "none", skipFailAt |-> 0, pwCase |-> "none",
             mapErr |-> NoErr]
  /\ msg = [called |-> FALSE, code |-> RAR_SUCCESS, text |-> NULL]

\* --------------------------------------------------------------- helpers

\* if (error_cb) error_cb(text);
ErrorCb(o, text) ==
  IF args.error_cb THEN [o EXCEPT !.errCalls = @ + 1, !.cbMsg = text] ELSE o

\* The error_cb call inside map_archive_error for the error e.
MapErrorCb(o, e) ==
  IF MapCalls(args.error_cb, e.str)
    THEN [o EXCEPT !.errCalls = @ + 1, !.cbMsg = e.str] ELSE o

\* free(p), archive_read_free(a), archive_write_free(ext), fclose(f).
Release_forgotten(st) == st

Release(st) == "freed"

\* A resource is used or released while not live.
Misused(sts) == \E i \in DOMAIN sts : sts[i] # "live"

\* return: the function's frame is gone; what is live now is leaked.
Return(m) ==
  [m EXCEPT !.leaked = @ \/ m.f = "live" \/ m.a = "live" \/ m.ext = "live"
                          \/ m.full_path = "live"]

\* if (password && strlen(password) > 0) archive_read_add_passphrase(a, password);
AddsPassphrase(password) == password # NULL /\ password # ""

\* r != ARCHIVE_OK after archive_read_open_filename.
OpenFailed_ignored(r) == FALSE

OpenFailed(r) == r # ARCHIVE_OK

\* The post-loop test of rar_extract without its result == RAR_SUCCESS half.
PostLoopMaps_always(r, result) == r # ARCHIVE_EOF

\* if (r != ARCHIVE_EOF && result == RAR_SUCCESS) in rar_extract.
PostLoopMaps(r, result) == r # ARCHIVE_EOF /\ result = RAR_SUCCESS

\* The list_cb test inverted on pathname.
ListCalls_inverted(hasPath, cb) == ~hasPath /\ cb

\* if (pathname && list_cb) in rar_list.
ListCalls(hasPath, cb) == hasPath /\ cb

\* A failed entry followed by the next iteration instead of a break.
AfterEntryFailure_continue == "next"

\* break: where rar_extract goes after a failed entry.
AfterEntryFailure == "post"

\* copy_data(ar, aw): nblk blocks are read, each written with status wr,
\* then archive_read_data_block returns rd (ARCHIVE_EOF or a failure).
copy_data(nblk, rd, wr) ==
  IF nblk > 0 /\ wr # ARCHIVE_OK THEN wr
  ELSE IF rd = ARCHIVE_EOF THEN ARCHIVE_OK
  ELSE rd

\* The statuses a libarchive call can return when it may succeed.
OkOrFailure == {ARCHIVE_OK} \cup ArchiveFailures

\* What ends an archive's header sequence: end-of-archive, or a bad header.
Tails == {ARCHIVE_EOF} \cup ArchiveFailures

\* The runs of copy_data's loop: <<blocks read, last read status, write status>>.
CopyRuns ==
  { <<0, ARCHIVE_EOF, ARCHIVE_OK>>, <<1, ARCHIVE_EOF, ARCHIVE_OK>> }
    \cup { <<0, s, ARCHIVE_OK>> : s \in ArchiveFailures }
    \cup { <<1, ARCHIVE_EOF, s>> : s \in ArchiveFailures }

\* ------------------------------------------- steps shared by both functions

\* FILE* f = fopen(rar_path, "rb"); if (!f) {...return RAR_FILE_NOT_FOUND;} fclose(f);
Fopen(nextpc) ==
  /\ pc = "start"
  /\ \E exists \in BOOLEAN :
       /\ env' = [env EXCEPT !.fileExists = exists]
       /\ IF ~exists
            THEN /\ out' = ErrorCb(out, "RAR file not found")
                 /\ loc' = [loc EXCEPT !.result = RAR_FILE_NOT_FOUND]
                 /\ mem' = Return(mem)
                 /\ pc' = "done"
            ELSE /\ mem' = [mem EXCEPT !.f = Release("live")]
                 /\ pc' = nextpc
                 /\ UNCHANGED << out, loc >>
  /\ UNCHANGED << args, fs, lib, hist, msg >>

\* a = archive_read_new(); support_format_rar/rar5, support_filter_all;
\* archive_read_add_passphrase when a password is given.
ReadNew(nextpc) ==
  /\ pc = "reader"
  /\ \E ok \in BOOLEAN :
       IF ~ok
         THEN /\ out' = ErrorCb(out, "Failed to create archive reader")
              /\ loc' = [loc EXCEPT !.result = RAR_MEMORY_ERROR]
              /\ mem' = Return(mem)
              /\ pc' = "done"
              /\ UNCHANGED lib
         ELSE /\ mem' = [mem EXCEPT !.a = "live"]
              /\ lib' = [lib EXCEPT !.passSet = AddsPassphrase(args.password)]
              /\ pc' = nextpc
              /\ UNCHANGED << out, loc >>
  /\ UNCHANGED << args, env, fs, hist, msg >>

\* r = archive_read_open_filename(a, rar_path, BUFFER_SIZE); on failure the
\* error is mapped, the objects are freed and the function returns.
Open ==
  /\ pc = "open"
  /\ \E rr \in OkOrFailure :
       IF OpenFailed(rr)
         THEN \E e \in Errs :
              /\ lib' = [lib EXCEPT !.aErr = e]
              /\ loc' = [loc EXCEPT !.r = rr, !.result = MapCode(e.no, e.str)]
              /\ out' = MapErrorCb(out, e)
              /\ hist' = [hist EXCEPT !.mapErr = e, !.openSt = rr]
              /\ mem' = Return(
                   [mem EXCEPT !.a = Release(@),
                               !.ext = IF args.op = "extract" THEN Release(@) ELSE @,
                               !.bad = @ \/ Misused(<<mem.a>>)
                                         \/ (args.op = "extract" /\ Misused(<<mem.ext>>))])
              /\ pc' = "done"
              /\ UNCHANGED env
         ELSE \E n \in 0..MaxEntries :
              /\ env' = [env EXCEPT !.nEntries = n]
              /\ hist' = [hist EXCEPT !.openSt = rr]
              /\ loc' = [loc EXCEPT !.r = rr]
              /\ mem' = [mem EXCEPT !.bad = @ \/ Misused(<<mem.a>>)]
              /\ pc' = "next"
              /\ UNCHANGED << lib, out >>
  /\ UNCHANGED << args, fs, msg >>

\* while ((r = archive_read_next_header(a, &entry)) == ARCHIVE_OK): a reader
\* that has failed fatally keeps failing; otherwise the next of the archive's
\* nEntries headers, and after them end-of-archive or a bad header.
NextHeader(bodypc) ==
  /\ pc = "next"
  /\ \E st \in {ARCHIVE_OK} \cup Tails :
       /\ lib.aFatal => st = ARCHIVE_FATAL
       /\ ~lib.aFatal => (st = ARCHIVE_OK <=> loc.cur < env.nEntries)
       /\ mem' = [mem EXCEPT !.bad = @ \/ Misused(<<mem.a>>)]
       /\ IF st = ARCHIVE_OK
            THEN /\ \E e \in Entries(args.op) :
                      /\ loc' = [loc EXCEPT !.r = st, !.cur = @ + 1, !.entry = e]
                      /\ hist' = [hist EXCEPT !.lastHdr = st,
                                    !.named = IF e.hasPath THEN @ \cup {loc.cur + 1} ELSE @]
                 /\ pc' = bodypc
                 /\ UNCHANGED lib
            ELSE /\ loc' = [loc EXCEPT !.r = st]
                 /\ hist' = [hist EXCEPT !.lastHdr = st]
                 /\ pc' = "post"
                 /\ IF st = ARCHIVE_EOF \/ lib.aFatal
                      THEN UNCHANGED lib
                      ELSE \E e \in Errs :
                           lib' = [lib EXCEPT !.aErr = e,
                                              !.aFatal = (st = ARCHIVE_FATAL)]
  /\ UNCHANGED << args, env, fs, out, msg >>

\* ------------------------------------------------------------ rar_extract

Extract_fopen == args.op = "extract" /\ Fopen("mkdest")

\* if (create_directory_recursive(dest_path) != 0) {... return RAR_CREATE_ERROR;}
Extract_mkdest ==
  /\ pc = "mkdest"
  /\ \E w \in BOOLEAN :
       LET c == create_directory_recursive(args.dest_path, fs.dirs, fs.files, w)
       IN /\ env' = [env EXCEPT !.writable = w]
          /\ fs' = [fs EXCEPT !.dirs = c.dirs]
          /\ IF c.rc # 0
               THEN /\ out' = ErrorCb(out, "Failed to create destination directory")
                    /\ loc' = [loc EXCEPT !.result = RAR_CREATE_ERROR]
                    /\ mem' = Return(mem)
                    /\ pc' = "done"
               ELSE /\ pc' = "reader"
                    /\ UNCHANGED << out, loc, mem >>
  /\ UNCHANGED << args, lib, hist, msg >>

Extract_read_new == args.op = "extract" /\ ReadNew("writer")

\* ext = archive_write_disk_new(); if (!ext) { archive_read_free(a); ...}
\* then archive_write_disk_set_options / set_standard_lookup.
Extract_write_new ==
  /\ pc = "writer"
  /\ \E ok \in BOOLEAN :
       IF ~ok
         THEN /\ out' = ErrorCb(out, "Failed to create disk writer")
              /\ loc' = [loc EXCEPT !.result = RAR_MEMORY_ERROR]
              /\ mem' = Return([mem EXCEPT !.a = Release(@),
                                           !.bad = @ \/ Misused(<<mem.a>>)])
              /\ pc' = "done"
         ELSE /\ mem' = [mem EXCEPT !.ext = "live"]
              /\ pc' = "open"
              /\ UNCHANGED << out, loc >>
  /\ UNCHANGED << args, env, fs, lib, hist, msg >>

Extract_open == args.op = "extract" /\ Open

Extract_next == args.op = "extract" /\ NextHeader("build")

\* entry_path = archive_entry_pathname(entry); strlen(entry_path) (a NULL
\* pathname is dereferenced); full_path = malloc(...); snprintf;
\* archive_entry_set_pathname; create_directory_recursive(parent).
Extract_build ==
  /\ pc = "build"
  /\ IF ~loc.entry.hasPath
       THEN /\ pc' = "crashed"
            /\ UNCHANGED << fs, mem, loc, out, hist >>
       ELSE \E ok \in BOOLEAN :
            IF ~ok
              THEN /\ loc' = [loc EXCEPT !.result = RAR_MEMORY_ERROR]
                   /\ out' = ErrorCb(out, "Memory allocation failed")
                   /\ hist' = [hist EXCEPT !.failedAt = loc.cur, !.failStep = "malloc"]
                   /\ pc' = AfterEntryFailure
                   /\ UNCHANGED << fs, mem >>
              ELSE LET full == FullPath(args.dest_path, loc.entry.path)
                       c == create_directory_recursive(get_parent_directory(full),
                                                       fs.dirs, fs.files, env.writable)
                   IN /\ mem' = [mem EXCEPT !.full_path = "live",
                                            !.leaked = @ \/ mem.full_path = "live"]
                      /\ fs' = [fs EXCEPT !.dirs = c.dirs]
                      /\ pc' = "whdr"
                      /\ UNCHANGED << loc, out, hist >>
  /\ UNCHANGED << args, env, lib, msg >>

\* The part of a failed entry all three failure branches share:
\* result = map_archive_error(x, error_cb); free(full_path); break;
EntryFailed(e, step, rr) ==
  /\ loc' = [loc EXCEPT !.r = rr, !.result = MapCode(e.no, e.str)]
  /\ out' = MapErrorCb(out, e)
  /\ mem' = [mem EXCEPT !.full_path = Release(@),
                        !.bad = @ \/ Misused(<<mem.full_path>>)]
  /\ pc' = AfterEntryFailure

\* r = archive_write_header(ext, entry): the disk writer creates the object
\* the (unchecked) pathname resolves to, or fails.
Extract_write_header ==
  /\ pc = "whdr"
  /\ LET tgt == WriteTarget(FullPath(args.dest_path, loc.entry.path), fs.dirs)
         can == tgt # NoPath /\ env.writable /\ tgt \notin fs.dirs
     IN \E rr \in (IF can THEN {ARCHIVE_OK} ELSE {}) \cup ArchiveFailures :
          IF rr # ARCHIVE_OK
            THEN \E e \in Errs :
                 /\ lib' = [lib EXCEPT !.extErr = e]
                 /\ EntryFailed(e, "header", rr)
                 /\ hist' = [hist EXCEPT !.failedAt = loc.cur, !.failStep = "header",
                                         !.mapErr = e]
                 /\ UNCHANGED fs
            ELSE /\ fs' = [fs EXCEPT !.files = @ \cup {tgt}]
                 /\ loc' = [loc EXCEPT !.r = rr]
                 /\ mem' = [mem EXCEPT !.bad = @ \/ Misused(<<mem.ext, mem.full_path>>)]
                 /\ pc' = IF loc.entry.size > 0 THEN "copy" ELSE "finish"
                 /\ UNCHANGED << lib, out, hist >>
  /\ UNCHANGED << args, env, msg >>

\* if (archive_entry_size(entry) > 0) { r = copy_data(a, ext); ... }: the data
\* of an encrypted entry cannot be read without the right passphrase; on any
\* failure the error is taken from the reader a.
Extract_copy ==
  /\ pc = "copy"
  /\ \E run \in CopyRuns, wrong \in BOOLEAN :
       LET rr == copy_data(run[1], run[2], run[3])
           readFailed == run[2] # ARCHIVE_EOF
           pw == IF ~loc.entry.enc THEN "none"
                 ELSE IF ~lib.passSet THEN "missing"
                 ELSE IF wrong THEN "wrong" ELSE "none"
       IN /\ wrong => loc.entry.enc /\ lib.passSet
          /\ pw # "none" => readFailed
          /\ IF rr # ARCHIVE_OK
               THEN \E e \in Errs :
                    LET ea == IF readFailed THEN e ELSE lib.aErr
                    IN /\ lib' = [lib EXCEPT !.aErr = ea,
                                             !.extErr = IF readFailed THEN @ ELSE e]
                       /\ EntryFailed(ea, "copy", rr)
                       /\ hist' = [hist EXCEPT !.failedAt = loc.cur, !.failStep = "copy",
                                               !.pwCase = pw, !.mapErr = ea]
               ELSE /\ loc' = [loc EXCEPT !.r = rr]
                    /\ mem' = [mem EXCEPT !.bad = @ \/ Misused(<<mem.a, mem.ext>>)]
                    /\ pc' = "finish"
                    /\ UNCHANGED << lib, out, hist >>
  /\ UNCHANGED << args, env, fs, msg >>

\* r = archive_write_finish_entry(ext); ... free(full_path);
Extract_finish ==
  /\ pc = "finish"
  /\ \E rr \in OkOrFailure :
       IF rr # ARCHIVE_OK
         THEN \E e \in Errs :
              /\ lib' = [lib EXCEPT !.extErr = e]
              /\ EntryFailed(e, "finish", rr)
              /\ hist' = [hist EXCEPT !.failedAt = loc.cur, !.failStep = "finish",
                                      !.mapErr = e]
         ELSE /\ loc' = [loc EXCEPT !.r = rr]
              /\ out' = [out EXCEPT !.extracted = @ \cup {loc.cur}]
              /\ mem' = [mem EXCEPT !.full_path = Release(@),
                                    !.bad = @ \/ Misused(<<mem.ext, mem.full_path>>)]
              /\ pc' = "next"
              /\ UNCHANGED << lib, hist >>
  /\ UNCHANGED << args, env, fs, msg >>

\* if (r != ARCHIVE_EOF && result == RAR_SUCCESS) result = map_archive_error(a, ..);
\* archive_read_close/free(a); archive_write_close/free(ext); return result;
Extract_post ==
  /\ pc = "post"
  /\ IF PostLoopMaps(loc.r, loc.result)
       THEN /\ loc' = [loc EXCEPT !.result = MapCode(lib.aErr.no, lib.aErr.str)]
            /\ out' = MapErrorCb(out, lib.aErr)
            /\ hist' = [hist EXCEPT !.mapErr = lib.aErr]
       ELSE UNCHANGED << loc, out, hist >>
  /\ mem' = Return([mem EXCEPT !.a = Release(@), !.ext = Release(@),
                               !.bad = @ \/ Misused(<<mem.a, mem.ext>>)])
  /\ pc' = "done"
  /\ UNCHANGED << args, env, fs, lib, msg >>

\* --------------------------------------------------------------- rar_list

List_fopen == args.op = "list" /\ Fopen("reader")

List_read_new == args.op = "list" /\ ReadNew("open")

List_open == args.op = "list" /\ Open

List_next == args.op = "list" /\ NextHeader("emit")

\* pathname = archive_entry_pathname(entry); if (pathname && list_cb) list_cb(pathname);
List_emit ==
  /\ pc = "emit"
  /\ out' = IF ListCalls(loc.entry.hasPath, args.list_cb)
              THEN [out EXCEPT !.listed = Append(@, loc.cur)] ELSE out
  /\ pc' = "skip"
  /\ UNCHANGED << args, env, fs, mem, lib, loc, hist, msg >>

\* archive_read_data_skip(a); its return value is not looked at.
List_skip ==
  /\ pc = "skip"
  /\ \E rr \in OkOrFailure :
       IF rr # ARCHIVE_OK
         THEN \E e \in Errs :
              /\ lib' = [lib EXCEPT !.aErr = e, !.aFatal = (rr = ARCHIVE_FATAL)]
              /\ hist' = [hist EXCEPT !.skipFailAt = IF @ = 0 THEN loc.cur ELSE @]
         ELSE UNCHANGED << lib, hist >>
  /\ mem' = [mem EXCEPT !.bad = @ \/ Misused(<<mem.a>>)]
  /\ pc' = "next"
  /\ UNCHANGED << args, env, fs, loc, out, msg >>

\* if (r != ARCHIVE_EOF) result = map_archive_error(a, error_cb);
\* archive_read_close(a); archive_read_free(a); return result;
List_post ==
  /\ pc = "post"
  /\ IF loc.r # ARCHIVE_EOF
       THEN /\ loc' = [loc EXCEPT !.result = MapCode(lib.aErr.no, lib.aErr.str)]
            /\ out' = MapErrorCb(out, lib.aErr)
            /\ hist' = [hist EXCEPT !.mapErr = lib.aErr]
       ELSE UNCHANGED << loc, out, hist >>
  /\ mem' = Return([mem EXCEPT !.a = Release(@), !.bad = @ \/ Misused(<<mem.a>>)])
  /\ pc' = "done"
  /\ UNCHANGED << args, env, fs, lib, msg >>

\* --------------------------------------------------------- specifications

Next ==
  \/ Extract_fopen \/ Extract_mkdest \/ Extract_read_new \/ Extract_write_new
  \/ Extract_open \/ Extract_next \/ Extract_build \/ Extract_write_header
  \/ Extract_copy \/ Extract_finish
  \/ (args.op = "extract" /\ Extract_post)
  \/ List_fopen \/ List_read_new \/ List_open \/ List_next \/ List_emit
  \/ List_skip
  \/ (args.op = "list" /\ List_post)

\* One call of rar_extract or rar_list, from entry to return.
Spec == Init /\ [][Next]_vars

\* rar_get_error_message(error_code), for any int the caller passes.
GetErrorMessage ==
  /\ \E c \in (0 - MaxProbe)..(MaxProbe + RAR_UNKNOWN_ERROR) :
       msg' = [called |-> TRUE, code |-> c, text |-> rar_get_error_message(c)]
  /\ UNCHANGED << pc, args, env, fs, mem, lib, loc, out, hist >>

NextMsg == GetErrorMessage

\* Calls of rar_get_error_message alone.
SpecMsg == Init /\ [][NextMsg]_vars

\* ================================================================ claims

Done == pc = "done"

\* archive_read_open_filename returned ARCHIVE_OK.
Opened == hist.openSt = ARCHIVE_OK

\* The call ended in an archive-open failure: the file was missing, or
\* archive_read_open_filename did not return ARCHIVE_OK.
OpenFailure ==
  Done /\ (~env.fileExists \/ hist.openSt \in ArchiveFailures)

\* The archive was valid: it opened and its headers ended with end-of-archive.
ValidArchive == Opened /\ hist.lastHdr = ARCHIVE_EOF

\* The elements of a sequence.
Range(q) == { q[i] : i \in DOMAIN q }

\* A sequence of numbers in strictly increasing order.
Increasing(q) == \A i, j \in DOMAIN q : i < j => q[i] < q[j]

\* The error texts of ErrStrings that contain "password", "Password",
\* "encrypted" or "Encrypted", read off the texts themselves.
PasswordTexts == {"BadPassword", "EncInvalid"}

\* ---- C1: during rar_extract nothing is ever created outside dest_path: every
\* path the call has created is dest_path, one of dest_path's own parents, or
\* lies under dest_path (an entry whose pathname climbs out with ".." is
\* rejected instead of written).
C1_WritesStayUnderDest ==
  \A p \in Created : IsPrefix(args.dest_path, p) \/ IsPrefix(p, args.dest_path)

C3_TotalMapping ==
  /\ Len(error_messages) = RAR_UNKNOWN_ERROR + 1
  /\ msg.called =>
       /\ msg.text \notin {NULL, OutOfBounds}
       /\ IF msg.code \in RAR_SUCCESS..RAR_UNKNOWN_ERROR
            THEN msg.text = error_messages[msg.code + 1]
            ELSE msg.text = "Unknown error"

\* The function was called with a negative code and answered "Unknown error".
C3_Witness == msg.called /\ msg.code < 0 /\ msg.text = "Unknown error"

C6_SkipErrorStops ==
  (args.op = "list" /\ args.list_cb /\ hist.skipFailAt # 0)
    => /\ \A i \in Range(out.listed) : i <= hist.skipFailAt
       /\ Done => loc.result # RAR_SUCCESS

\* ---- C7: rar_extract and rar_list return RAR_SUCCESS exactly when the file
\* existed, the archive opened, the headers ended with end-of-archive and no
\* entry step failed; every other return is a code in 1..9; and
\* map_archive_error never yields RAR_SUCCESS.
C7_SuccessIffComplete ==
  /\ pc = "start" =>   \* of the function alone: evaluated where a call starts
        \A e \in Errs \cup {NoErr} :
           MapCode(e.no, e.str) \in RAR_FILE_NOT_FOUND..RAR_UNKNOWN_ERROR
  /\ Done =>
       /\ loc.result \in RAR_SUCCESS..RAR_UNKNOWN_ERROR
       /\ loc.result = RAR_SUCCESS
            <=> (env.fileExists /\ ValidArchive /\ hist.failStep = "none")

\* rar_extract returned RAR_SUCCESS after extracting both entries of an archive.
C7_Witness ==
  /\ Done /\ args.op = "extract" /\ loc.result = RAR_SUCCESS
  /\ out.extracted = {1, 2}

\* ---- C8 (as claimed): an archive-open failure leaves nothing behind: no
\* list_cb call, no entry written, a non-success code, and no filesystem
\* change at all, the destination directory included.
C8_OpenFailureNoChange ==
  OpenFailure
    => /\ out.listed = << >> /\ out.extracted = {} /\ fs.files = {}
       /\ loc.result # RAR_SUCCESS
       /\ Created = {}

\* ---- C8 (amended): an archive-open failure aborts at once with a
\* non-success code, no list_cb call and no entry written; when the file is
\* missing nothing on disk has changed, but when archive_read_open_filename
\* fails in rar_extract the destination directory and its missing parents have
\* already been created (and nothing else).
C8_OpenFailureLeavesOnlyDest ==
  OpenFailure
    => /\ out.listed = << >> /\ out.extracted = {} /\ fs.files = {}
       /\ loc.result # RAR_SUCCESS
       /\ loc.cur = 0
       /\ Created \subseteq Prefixes(args.dest_path)
       /\ ~env.fileExists => Created = {}

\* rar_extract failed to open the archive after it had created dest_path.
C8_Witness ==
  /\ OpenFailure /\ args.op = "extract" /\ hist.openSt = ARCHIVE_WARN
  /\ args.dest_path \in Created

\* ---- C9: the probe FILE, the reader, the disk writer and each entry's
\* full_path buffer are released exactly once on every return path: nothing is
\* used or freed when not live, no buffer is overwritten while live, and when
\* the call returns nothing is still live.
C9_ReleasedExactlyOnce ==
  /\ ~mem.bad
  /\ ~mem.leaked
  /\ Done => /\ mem.f \in {"null", "freed"}
             /\ mem.a \in {"null", "freed"}
             /\ mem.ext \in {"null", "freed"}
             /\ mem.full_path \in {"null", "freed"}
  /\ (Done /\ Opened) => mem.a = "freed"
  /\ (Done /\ Opened /\ args.op = "extract") => mem.ext = "freed"
  /\ (Done /\ env.fileExists) => mem.f = "freed"

\* rar_extract returned after the second entry failed in finish-entry: reader,
\* writer and the buffer are all freed.
C9_Witness ==
  /\ Done /\ args.op = "extract" /\ hist.failStep = "finish" /\ hist.failedAt = 2
  /\ mem.a = "freed" /\ mem.ext = "freed" /\ mem.full_path = "freed"

\* ---- C10: within one call error_cb is invoked at most once, never when the
\* call returns RAR_SUCCESS, and never before a list_cb invocation; the
\* post-loop check of rar_extract adds no second report to a failed entry's.
C10_ErrorCbAtMostOnce ==
  /\ [](/\ out.errCalls <= 1
        /\ (Done /\ loc.result = RAR_SUCCESS) => out.errCalls = 0)
  /\ [][out.errCalls > 0 => out'.listed = out.listed]_vars

\* rar_extract returned after a failed entry was reported to error_cb, once.
C10_Witness ==
  /\ Done /\ args.op = "extract" /\ hist.failStep = "copy"
  /\ lib.aErr.str # NULL /\ out.errCalls = 1

====
